---- MODULE Spec2Model ----
(***************************************************************************)
(* State-machine model of the JNI glue of the Android Bluetooth service:   *)
(*   jni/com_android_bluetooth_avrcp_controller.cpp  (AVRCP controller)    *)
(*   jni/com_android_bluetooth_btservice_vendor.cpp  (vendor extension)    *)
(*                                                                         *)
(* Two threads act on the file-scope globals of the two modules:           *)
(*  - the Java service thread runs initNative, cleanupNative and the       *)
(*    outbound commands; initNative and cleanupNative are split into one   *)
(*    step per statement group, so that callbacks can interleave;          *)
(*  - the native callback thread runs the HAL callbacks.                   *)
(* A command and a callback are one step each: a command writes no global  *)
(* and makes its one test of the interface pointer on entry; a callback    *)
(* writes no global and is taken at the point where it reads the callbacks *)
(* object.                                                                 *)
(* The HAL and the JNI runtime are the environment: their results          *)
(* (NULL or not, status) are chosen nondeterministically.                  *)
(***************************************************************************)
EXTENDS Integers, Sequences, FiniteSets, TLC

\* ------------------------------------------------------------- bounds
\* live JNI global references the runtime hands out
MaxGlobalRefs == 6
\* successful init() calls of the vendor HAL without a cleanup() in between
MaxHalInits == 2
\* items of one get_folder_items response
MaxItems == 2
\* attributes of one attribute response / media item
MaxAttrs == 1

\* ---------------------------------------------------------- constants
NULL == 0
\* hardware/bt_rc.h, used at avrcp_controller.cpp:1292
BTRC_MAX_ELEM_ATTR_SIZE == 8

Status == {"BT_STATUS_SUCCESS", "BT_STATUS_FAIL"}

VARIABLES
  sBluetoothAvrcpInterface,        \* NULL or the btrc_ctrl_interface_t
  sBluetoothAvrcpVendorInterface,  \* NULL or the btrc_vendor_ctrl_interface_t
  sCallbacksObj,                   \* NULL or a global reference
  class_MediaBrowser_MediaItem,    \* NULL or a global reference
  class_AvrcpPlayer,               \* NULL or a global reference
  sBluetoothVendorInterface,       \* NULL or the btvendor_interface_t
  mCallbacksObj,                   \* NULL or a global reference
  globalRefs,                      \* the number of live JNI global references
  hal,                             \* per HAL interface: successful inits since the last cleanup
  svc,                             \* the Java service thread inside initNative / cleanupNative
  last                             \* what the command or callback that has just run did

avrcpGlobals == <<sBluetoothAvrcpInterface, sBluetoothAvrcpVendorInterface, sCallbacksObj>>
classGlobals == <<class_MediaBrowser_MediaItem, class_AvrcpPlayer>>
vendorGlobals == <<sBluetoothVendorInterface, mCallbacksObj>>
vars == <<sBluetoothAvrcpInterface, sBluetoothAvrcpVendorInterface, sCallbacksObj,
          class_MediaBrowser_MediaItem, class_AvrcpPlayer, sBluetoothVendorInterface,
          mCallbacksObj, globalRefs, hal, svc, last>>

\* ------------------------------------------------------- environment
\* getBluetoothInterface(): NULL when the Bluetooth module is not loaded
BtInterfaces == {NULL, 1}
\* get_profile_interface(id): NULL or the interface of that profile
ProfileInterfaces == {NULL, 1}

\* A global of reference type holds NULL, a live global reference (what
\* NewGlobalRef returned) or a stale one (DeleteGlobalRef was called on it and
\* the global still holds it).  No reference is held by two globals.
LiveRef == 1
StaleRef == 2

\* what CallVoidMethod / CallObjectMethod is handed as the receiver
RefState(o) == IF o = NULL THEN "NULL" ELSE IF o = LiveRef THEN "live" ELSE "deleted"

\* one call into the HAL
HalCall(fn, via, ptr, nullArgs, st) ==
  [fn |-> fn, via |-> via, ptrNull |-> (ptr = NULL), nullArgs |-> nullArgs, st |-> st]

\* what get_profile_interface returned
Found(p) == IF p = NULL THEN "NULL" ELSE "found"

\* one call into Java on the callbacks object
JavaCall(method, obj, nullArgs) == [method |-> method, obj |-> RefState(obj), nullArgs |-> nullArgs]

\* the record of one operation
Rec(op, kind) ==
  [op |-> op, kind |-> kind,
   hal |-> <<>>,        \* HAL calls made, in order
   java |-> <<>>,       \* Java calls made on the callbacks object, in order
   ret |-> "void",      \* return value
   via |-> "none",      \* the interface pointer a command makes its HAL call through
   got |-> <<>>,        \* buffers obtained from Java arrays / strings (non-null results)
   failed |-> <<>>,     \* element accesses / allocations that returned null
   newd |-> <<>>,       \* native arrays allocated with new[]
   freed |-> <<>>,      \* native arrays freed with delete[]
   rel |-> <<>>,        \* buffers released
   thrown |-> FALSE,    \* jniThrowIOException was called
   del |-> 0,           \* DeleteGlobalRef calls
   arr |-> <<>>]        \* arrays delivered to Java

\* the service thread: where it is inside initNative / cleanupNative, and what
\* the current (or, when idle, the last) initNative / cleanupNative call did
NoOp == Rec("none", "none")

SvcIdle == [pc |-> "idle", op |-> "none", hal |-> <<>>, del |-> 0, btInf |-> "none", rep |-> FALSE]

Init ==
  /\ sBluetoothAvrcpInterface = NULL
  /\ sBluetoothAvrcpVendorInterface = NULL
  /\ sCallbacksObj = NULL
  /\ class_MediaBrowser_MediaItem = NULL
  /\ class_AvrcpPlayer = NULL
  /\ sBluetoothVendorInterface = NULL
  /\ mCallbacksObj = NULL
  /\ globalRefs = 0
  /\ hal = [rc |-> 0, rcv |-> 0, vnd |-> 0]
  /\ svc = SvcIdle
  /\ last = NoOp

\* `last` holds the record of a command or a callback in the state that
\* follows it, and is dropped before the next step of either thread: nothing
\* in the program reads it, so the states of the program are the same as
\* without it.
Return ==
  /\ last # NoOp
  /\ last' = NoOp
  /\ UNCHANGED <<avrcpGlobals, classGlobals, vendorGlobals, globalRefs, hal, svc>>

\* Enter without the return on getBluetoothInterface() = NULL
Enter_IgnoresModule(op, btInf, pc) ==
  /\ last = NoOp
  /\ svc' = [pc |-> pc, op |-> op, hal |-> <<>>, del |-> 0, btInf |-> Found(btInf),
             rep |-> (svc.op = op /\ svc.btInf = "found")]
  /\ UNCHANGED last

\* entering initNative / cleanupNative: it returns when getBluetoothInterface()
\* is NULL, and goes on at pc otherwise
\* (rep: the call directly follows a call of the same function that ran
\* with the module loaded)
Enter(op, btInf, pc) ==
  /\ last = NoOp
  /\ svc' = [pc |-> IF btInf = NULL THEN "idle" ELSE pc, op |-> op, hal |-> <<>>, del |-> 0,
             btInf |-> Found(btInf),
             rep |-> (svc.op = op /\ svc.btInf = "found")]
  /\ UNCHANGED last

\* a later step of initNative / cleanupNative: the HAL calls and the
\* DeleteGlobalRef calls it makes, and where it goes on
Goto(pc, calls, d) ==
  /\ last = NoOp
  /\ svc' = [svc EXCEPT !.pc = pc, !.hal = @ \o calls, !.del = @ + d]
  /\ UNCHANGED last

\* ------------------------------------------- AVRCP controller: initNative
\* lines 880-893: the two class references, then getBluetoothInterface()
avrcp_initNative ==
  /\ svc.pc = "idle"
  /\ globalRefs + 3 <= MaxGlobalRefs
  /\ class_MediaBrowser_MediaItem' = LiveRef
  /\ class_AvrcpPlayer' = LiveRef
  /\ globalRefs' = globalRefs + 2
  /\ \E btInf \in BtInterfaces :
       Enter("avrcp_initNative", btInf, "rc_init_cleanup_vendor")
  /\ UNCHANGED <<avrcpGlobals, vendorGlobals, hal>>

\* lines 895-899
avrcp_init_cleanup_vendor ==
  /\ svc.pc = "rc_init_cleanup_vendor"
  /\ IF sBluetoothAvrcpVendorInterface # NULL
     THEN /\ hal' = [hal EXCEPT !.rcv = 0]
          /\ sBluetoothAvrcpVendorInterface' = NULL
          /\ Goto("rc_init_cleanup", <<HalCall("cleanup_vendor", "rcv", sBluetoothAvrcpVendorInterface, {}, "void")>>, 0)
     ELSE /\ Goto("rc_init_cleanup", <<>>, 0)
          /\ UNCHANGED <<hal, sBluetoothAvrcpVendorInterface>>
  /\ UNCHANGED <<sBluetoothAvrcpInterface, sCallbacksObj, classGlobals, vendorGlobals, globalRefs>>

\* avrcp_init_cleanup without the cleanup() call: the pointer is only reset
avrcp_init_cleanup_NoCleanup ==
  /\ svc.pc = "rc_init_cleanup"
  /\ sBluetoothAvrcpInterface' = NULL
  /\ Goto("rc_init_delete_ref", <<>>, 0)
  /\ UNCHANGED <<sBluetoothAvrcpVendorInterface, sCallbacksObj, classGlobals, vendorGlobals, globalRefs, hal>>

\* lines 901-905
avrcp_init_cleanup ==
  /\ svc.pc = "rc_init_cleanup"
  /\ IF sBluetoothAvrcpInterface # NULL
     THEN /\ hal' = [hal EXCEPT !.rc = 0]
          /\ sBluetoothAvrcpInterface' = NULL
          /\ Goto("rc_init_delete_ref", <<HalCall("cleanup", "rc", sBluetoothAvrcpInterface, {}, "void")>>, 0)
     ELSE /\ Goto("rc_init_delete_ref", <<>>, 0)
          /\ UNCHANGED <<hal, sBluetoothAvrcpInterface>>
  /\ UNCHANGED <<sBluetoothAvrcpVendorInterface, sCallbacksObj, classGlobals, vendorGlobals, globalRefs>>

\* lines 907-909: DeleteGlobalRef(sCallbacksObj)
avrcp_init_delete_ref ==
  /\ svc.pc = "rc_init_delete_ref"
  /\ IF sCallbacksObj # NULL
     THEN /\ globalRefs' = globalRefs - 1
          /\ sCallbacksObj' = StaleRef
          /\ Goto("rc_init_null_ref", <<>>, 1)
     ELSE /\ Goto("rc_init_get", <<>>, 0)
          /\ UNCHANGED <<globalRefs, sCallbacksObj>>
  /\ UNCHANGED <<sBluetoothAvrcpInterface, sBluetoothAvrcpVendorInterface, classGlobals, vendorGlobals, hal>>

\* line 910: sCallbacksObj = NULL
avrcp_init_null_ref ==
  /\ svc.pc = "rc_init_null_ref"
  /\ sCallbacksObj' = NULL
  /\ Goto("rc_init_get", <<>>, 0)
  /\ UNCHANGED <<sBluetoothAvrcpInterface, sBluetoothAvrcpVendorInterface, classGlobals, vendorGlobals, globalRefs, hal>>

\* lines 913-919: get_profile_interface(BT_PROFILE_AV_RC_CTRL_ID)
avrcp_init_get ==
  /\ svc.pc = "rc_init_get"
  /\ \E p \in ProfileInterfaces :
       /\ sBluetoothAvrcpInterface' = p
       /\ Goto(IF p = NULL THEN "idle" ELSE "rc_init_init",
               <<HalCall("get_profile_interface", "bt", 1, {}, Found(p))>>, 0)
  /\ UNCHANGED <<sBluetoothAvrcpVendorInterface, sCallbacksObj, classGlobals, vendorGlobals, globalRefs, hal>>

\* lines 921-928: init(&sBluetoothAvrcpCallbacks)
avrcp_init_init ==
  /\ svc.pc = "rc_init_init"
  /\ \E status \in Status :
       /\ IF status # "BT_STATUS_SUCCESS"
          THEN /\ sBluetoothAvrcpInterface' = NULL
               /\ UNCHANGED hal
          ELSE /\ hal' = [hal EXCEPT !.rc = @ + 1]
               /\ UNCHANGED sBluetoothAvrcpInterface
       /\ Goto(IF status # "BT_STATUS_SUCCESS" THEN "idle" ELSE "rc_init_get_vendor",
               <<HalCall("init", "rc", sBluetoothAvrcpInterface, {}, status)>>, 0)
  /\ UNCHANGED <<sBluetoothAvrcpVendorInterface, sCallbacksObj, classGlobals, vendorGlobals, globalRefs>>

\* avrcp_init_get_vendor without the rollback of lines 934-935
avrcp_init_get_vendor_NoRollback ==
  /\ svc.pc = "rc_init_get_vendor"
  /\ \E p \in ProfileInterfaces :
       /\ sBluetoothAvrcpVendorInterface' = p
       /\ Goto(IF p = NULL THEN "idle" ELSE "rc_init_init_vendor",
               <<HalCall("get_profile_interface", "bt", 1, {}, Found(p))>>, 0)
  /\ UNCHANGED <<sBluetoothAvrcpInterface, sCallbacksObj, classGlobals, vendorGlobals, globalRefs, hal>>

\* lines 930-938: get_profile_interface(BT_PROFILE_AV_RC_VENDOR_CTRL_ID)
avrcp_init_get_vendor ==
  /\ svc.pc = "rc_init_get_vendor"
  /\ \E p \in ProfileInterfaces :
       /\ sBluetoothAvrcpVendorInterface' = p
       /\ IF p = NULL
          THEN /\ hal' = [hal EXCEPT !.rc = 0]
               /\ sBluetoothAvrcpInterface' = NULL
               /\ Goto("idle", <<HalCall("get_profile_interface", "bt", 1, {}, Found(p)),
                                 HalCall("cleanup", "rc", sBluetoothAvrcpInterface, {}, "void")>>, 0)
          ELSE /\ Goto("rc_init_init_vendor", <<HalCall("get_profile_interface", "bt", 1, {}, Found(p))>>, 0)
               /\ UNCHANGED <<hal, sBluetoothAvrcpInterface>>
  /\ UNCHANGED <<sCallbacksObj, classGlobals, vendorGlobals, globalRefs>>

\* avrcp_init_init_vendor without the rollback of lines 944-946
avrcp_init_init_vendor_NoRollback ==
  /\ svc.pc = "rc_init_init_vendor"
  /\ \E status \in Status :
       IF status # "BT_STATUS_SUCCESS"
       THEN /\ sBluetoothAvrcpVendorInterface' = NULL
            /\ Goto("idle", <<HalCall("init_vendor", "rcv", sBluetoothAvrcpVendorInterface, {}, status)>>, 0)
            /\ UNCHANGED <<hal, sBluetoothAvrcpInterface>>
       ELSE /\ hal' = [hal EXCEPT !.rcv = @ + 1]
            /\ Goto("rc_init_new_ref", <<HalCall("init_vendor", "rcv", sBluetoothAvrcpVendorInterface, {}, status)>>, 0)
            /\ UNCHANGED <<sBluetoothAvrcpInterface, sBluetoothAvrcpVendorInterface>>
  /\ UNCHANGED <<sCallbacksObj, classGlobals, vendorGlobals, globalRefs>>

\* lines 940-949: init_vendor(&sBluetoothAvrcpVendorCallbacks)
avrcp_init_init_vendor ==
  /\ svc.pc = "rc_init_init_vendor"
  /\ \E status \in Status :
       IF status # "BT_STATUS_SUCCESS"
       THEN /\ sBluetoothAvrcpVendorInterface' = NULL
            /\ hal' = [hal EXCEPT !.rc = 0]
            /\ sBluetoothAvrcpInterface' = NULL
            /\ Goto("idle", <<HalCall("init_vendor", "rcv", sBluetoothAvrcpVendorInterface, {}, status),
                              HalCall("cleanup", "rc", sBluetoothAvrcpInterface, {}, "void")>>, 0)
       ELSE /\ hal' = [hal EXCEPT !.rcv = @ + 1]
            /\ Goto("rc_init_new_ref", <<HalCall("init_vendor", "rcv", sBluetoothAvrcpVendorInterface, {}, status)>>, 0)
            /\ UNCHANGED <<sBluetoothAvrcpInterface, sBluetoothAvrcpVendorInterface>>
  /\ UNCHANGED <<sCallbacksObj, classGlobals, vendorGlobals, globalRefs>>

\* line 952: sCallbacksObj = NewGlobalRef(object)
avrcp_init_new_ref ==
  /\ svc.pc = "rc_init_new_ref"
  /\ sCallbacksObj' = LiveRef
  /\ globalRefs' = globalRefs + 1
  /\ Goto("idle", <<>>, 0)
  /\ UNCHANGED <<sBluetoothAvrcpInterface, sBluetoothAvrcpVendorInterface, classGlobals, vendorGlobals, hal>>

\* ---------------------------------------- AVRCP controller: cleanupNative
\* lines 955-960
avrcp_cleanupNative ==
  /\ svc.pc = "idle"
  /\ \E btInf \in BtInterfaces :
       Enter("avrcp_cleanupNative", btInf, "rc_cleanup_vendor")
  /\ UNCHANGED <<avrcpGlobals, classGlobals, vendorGlobals, globalRefs, hal>>

\* avrcp_cleanup_vendor without the assignment of line 964
avrcp_cleanup_vendor_KeepsPointer ==
  /\ svc.pc = "rc_cleanup_vendor"
  /\ IF sBluetoothAvrcpVendorInterface # NULL
     THEN /\ hal' = [hal EXCEPT !.rcv = 0]
          /\ Goto("rc_cleanup", <<HalCall("cleanup_vendor", "rcv", sBluetoothAvrcpVendorInterface, {}, "void")>>, 0)
     ELSE /\ Goto("rc_cleanup", <<>>, 0)
          /\ UNCHANGED hal
  /\ UNCHANGED <<avrcpGlobals, classGlobals, vendorGlobals, globalRefs>>

\* lines 962-965
avrcp_cleanup_vendor ==
  /\ svc.pc = "rc_cleanup_vendor"
  /\ IF sBluetoothAvrcpVendorInterface # NULL
     THEN /\ hal' = [hal EXCEPT !.rcv = 0]
          /\ sBluetoothAvrcpVendorInterface' = NULL
          /\ Goto("rc_cleanup", <<HalCall("cleanup_vendor", "rcv", sBluetoothAvrcpVendorInterface, {}, "void")>>, 0)
     ELSE /\ Goto("rc_cleanup", <<>>, 0)
          /\ UNCHANGED <<hal, sBluetoothAvrcpVendorInterface>>
  /\ UNCHANGED <<sBluetoothAvrcpInterface, sCallbacksObj, classGlobals, vendorGlobals, globalRefs>>

\* avrcp_cleanup without the assignment of line 969
avrcp_cleanup_KeepsPointer ==
  /\ svc.pc = "rc_cleanup"
  /\ IF sBluetoothAvrcpInterface # NULL
     THEN /\ hal' = [hal EXCEPT !.rc = 0]
          /\ Goto("rc_cleanup_delete_ref", <<HalCall("cleanup", "rc", sBluetoothAvrcpInterface, {}, "void")>>, 0)
     ELSE /\ Goto("rc_cleanup_delete_ref", <<>>, 0)
          /\ UNCHANGED hal
  /\ UNCHANGED <<avrcpGlobals, classGlobals, vendorGlobals, globalRefs>>

\* lines 967-970
avrcp_cleanup ==
  /\ svc.pc = "rc_cleanup"
  /\ IF sBluetoothAvrcpInterface # NULL
     THEN /\ hal' = [hal EXCEPT !.rc = 0]
          /\ sBluetoothAvrcpInterface' = NULL
          /\ Goto("rc_cleanup_delete_ref", <<HalCall("cleanup", "rc", sBluetoothAvrcpInterface, {}, "void")>>, 0)
     ELSE /\ Goto("rc_cleanup_delete_ref", <<>>, 0)
          /\ UNCHANGED <<hal, sBluetoothAvrcpInterface>>
  /\ UNCHANGED <<sBluetoothAvrcpVendorInterface, sCallbacksObj, classGlobals, vendorGlobals, globalRefs>>

\* lines 972-973: DeleteGlobalRef(sCallbacksObj)
avrcp_cleanup_delete_ref ==
  /\ svc.pc = "rc_cleanup_delete_ref"
  /\ IF sCallbacksObj # NULL
     THEN /\ globalRefs' = globalRefs - 1
          /\ sCallbacksObj' = StaleRef
          /\ Goto("rc_cleanup_null_ref", <<>>, 1)
     ELSE /\ Goto("idle", <<>>, 0)
          /\ UNCHANGED <<globalRefs, sCallbacksObj>>
  /\ UNCHANGED <<sBluetoothAvrcpInterface, sBluetoothAvrcpVendorInterface, classGlobals, vendorGlobals, hal>>

\* avrcp_cleanup_null_ref without the assignment of line 974
avrcp_cleanup_null_ref_KeepsRef ==
  /\ svc.pc = "rc_cleanup_null_ref"
  /\ Goto("idle", <<>>, 0)
  /\ UNCHANGED <<avrcpGlobals, classGlobals, vendorGlobals, globalRefs, hal>>

\* line 974: sCallbacksObj = NULL
avrcp_cleanup_null_ref ==
  /\ svc.pc = "rc_cleanup_null_ref"
  /\ sCallbacksObj' = NULL
  /\ Goto("idle", <<>>, 0)
  /\ UNCHANGED <<sBluetoothAvrcpInterface, sBluetoothAvrcpVendorInterface, classGlobals, vendorGlobals, globalRefs, hal>>

AvrcpLifecycle ==
  \/ avrcp_initNative \/ avrcp_init_cleanup_vendor \/ avrcp_init_cleanup
  \/ avrcp_init_delete_ref \/ avrcp_init_null_ref \/ avrcp_init_get
  \/ avrcp_init_init \/ avrcp_init_get_vendor \/ avrcp_init_init_vendor
  \/ avrcp_init_new_ref
  \/ avrcp_cleanupNative \/ avrcp_cleanup_vendor \/ avrcp_cleanup
  \/ avrcp_cleanup_delete_ref \/ avrcp_cleanup_null_ref

\* ------------------------------------------ vendor module: initNative
\* lines 124-131
vendor_initNative ==
  /\ svc.pc = "idle"
  /\ globalRefs + 1 <= MaxGlobalRefs
  /\ hal.vnd < MaxHalInits
  /\ \E btInf \in BtInterfaces :
       Enter("vendor_initNative", btInf, "vnd_init_delete_ref")
  /\ UNCHANGED <<avrcpGlobals, classGlobals, vendorGlobals, globalRefs, hal>>

\* lines 133-135: DeleteGlobalRef(mCallbacksObj)
vendor_init_delete_ref ==
  /\ svc.pc = "vnd_init_delete_ref"
  /\ IF mCallbacksObj # NULL
     THEN /\ globalRefs' = globalRefs - 1
          /\ mCallbacksObj' = StaleRef
          /\ Goto("vnd_init_null_ref", <<>>, 1)
     ELSE /\ Goto("vnd_init_get", <<>>, 0)
          /\ UNCHANGED <<globalRefs, mCallbacksObj>>
  /\ UNCHANGED <<avrcpGlobals, classGlobals, sBluetoothVendorInterface, hal>>

\* line 136: mCallbacksObj = NULL
vendor_init_null_ref ==
  /\ svc.pc = "vnd_init_null_ref"
  /\ mCallbacksObj' = NULL
  /\ Goto("vnd_init_get", <<>>, 0)
  /\ UNCHANGED <<avrcpGlobals, classGlobals, sBluetoothVendorInterface, globalRefs, hal>>

\* lines 139-143: get_profile_interface(BT_PROFILE_VENDOR_ID)
vendor_init_get ==
  /\ svc.pc = "vnd_init_get"
  /\ \E p \in ProfileInterfaces :
       /\ sBluetoothVendorInterface' = p
       /\ Goto(IF p = NULL THEN "idle" ELSE "vnd_init_init",
               <<HalCall("get_profile_interface", "bt", 1, {}, Found(p))>>, 0)
  /\ UNCHANGED <<avrcpGlobals, classGlobals, mCallbacksObj, globalRefs, hal>>

\* lines 145-150: init(&sBluetoothVendorCallbacks)
vendor_init_init ==
  /\ svc.pc = "vnd_init_init"
  /\ \E status \in Status :
       /\ IF status # "BT_STATUS_SUCCESS"
          THEN /\ sBluetoothVendorInterface' = NULL
               /\ UNCHANGED hal
          ELSE /\ hal' = [hal EXCEPT !.vnd = @ + 1]
               /\ UNCHANGED sBluetoothVendorInterface
       /\ Goto(IF status # "BT_STATUS_SUCCESS" THEN "idle" ELSE "vnd_init_new_ref",
               <<HalCall("init", "vnd", sBluetoothVendorInterface, {}, status)>>, 0)
  /\ UNCHANGED <<avrcpGlobals, classGlobals, mCallbacksObj, globalRefs>>

\* line 151: mCallbacksObj = NewGlobalRef(object)
vendor_init_new_ref ==
  /\ svc.pc = "vnd_init_new_ref"
  /\ mCallbacksObj' = LiveRef
  /\ globalRefs' = globalRefs + 1
  /\ Goto("idle", <<>>, 0)
  /\ UNCHANGED <<avrcpGlobals, classGlobals, sBluetoothVendorInterface, hal>>

\* --------------------------------------- vendor module: cleanupNative
\* lines 154-161
vendor_cleanupNative ==
  /\ svc.pc = "idle"
  /\ \E btInf \in BtInterfaces :
       Enter("vendor_cleanupNative", btInf, "vnd_cleanup")
  /\ UNCHANGED <<avrcpGlobals, classGlobals, vendorGlobals, globalRefs, hal>>

\* lines 163-167
vendor_cleanup ==
  /\ svc.pc = "vnd_cleanup"
  /\ IF sBluetoothVendorInterface # NULL
     THEN /\ hal' = [hal EXCEPT !.vnd = 0]
          /\ sBluetoothVendorInterface' = NULL
          /\ Goto("vnd_cleanup_delete_ref", <<HalCall("cleanup", "vnd", sBluetoothVendorInterface, {}, "void")>>, 0)
     ELSE /\ Goto("vnd_cleanup_delete_ref", <<>>, 0)
          /\ UNCHANGED <<hal, sBluetoothVendorInterface>>
  /\ UNCHANGED <<avrcpGlobals, classGlobals, mCallbacksObj, globalRefs>>

\* lines 169-171: DeleteGlobalRef(mCallbacksObj)
vendor_cleanup_delete_ref ==
  /\ svc.pc = "vnd_cleanup_delete_ref"
  /\ IF mCallbacksObj # NULL
     THEN /\ globalRefs' = globalRefs - 1
          /\ mCallbacksObj' = StaleRef
          /\ Goto("vnd_cleanup_null_ref", <<>>, 1)
     ELSE /\ Goto("idle", <<>>, 0)
          /\ UNCHANGED <<globalRefs, mCallbacksObj>>
  /\ UNCHANGED <<avrcpGlobals, classGlobals, sBluetoothVendorInterface, hal>>

\* line 172: mCallbacksObj = NULL
vendor_cleanup_null_ref ==
  /\ svc.pc = "vnd_cleanup_null_ref"
  /\ mCallbacksObj' = NULL
  /\ Goto("idle", <<>>, 0)
  /\ UNCHANGED <<avrcpGlobals, classGlobals, sBluetoothVendorInterface, globalRefs, hal>>

VendorLifecycle ==
  \/ vendor_initNative \/ vendor_init_delete_ref \/ vendor_init_null_ref
  \/ vendor_init_get \/ vendor_init_init \/ vendor_init_new_ref
  \/ vendor_cleanupNative \/ vendor_cleanup \/ vendor_cleanup_delete_ref
  \/ vendor_cleanup_null_ref

Lifecycle == AvrcpLifecycle \/ VendorLifecycle

\* ------------------------------------------------- outbound commands
\* GetByteArrayElements / GetIntArrayElements / GetStringUTFChars: NULL or a buffer
Buffers == {NULL, 1}
\* a jintArray argument: null or an array
Arrays == {NULL, 1}
\* the numAttr argument: none, some, more than the maximum
NumAttrs == {0, 1, BTRC_MAX_ELEM_ATTR_SIZE + 1}

Ptr(via) == CASE via = "rc" -> sBluetoothAvrcpInterface
              [] via = "rcv" -> sBluetoothAvrcpVendorInterface
              [] via = "vnd" -> sBluetoothVendorInterface

\* <<name>> for a buffer that was obtained, <<>> for a null result
Got(name, b) == IF b = NULL THEN <<>> ELSE <<name>>
\* <<name>> for an element access that returned null
Failed(name, b) == IF b = NULL THEN <<name>> ELSE <<>>
\* the null arguments among the buffers handed to a HAL call
NullArg(name, b) == IF b = NULL THEN {name} ELSE {}

\* Command with the interface pointer reset on the way out
Command_ResetsPointer(op, rec) ==
  /\ svc.pc = "idle"
  /\ last' = rec
  /\ sBluetoothAvrcpInterface' = NULL
  /\ UNCHANGED <<sBluetoothAvrcpVendorInterface, sCallbacksObj, classGlobals, vendorGlobals,
                 globalRefs, hal, svc>>

\* a command runs on the service thread, outside initNative / cleanupNative,
\* and writes none of the globals
Command(op, rec) ==
  /\ svc.pc = "idle"
  /\ last' = rec
  /\ UNCHANGED <<avrcpGlobals, classGlobals, vendorGlobals, globalRefs, hal, svc>>

BoolRet(status) == IF status = "BT_STATUS_SUCCESS" THEN "JNI_TRUE" ELSE "JNI_FALSE"

\* AddrCommand without the test of the interface pointer
AddrCommand_NoNullCheck(op, guard, via, fn, ret, addr, status) ==
  LET r == [Rec(op, "cmd") EXCEPT !.via = via]
  IN Command(op,
       IF addr = NULL
         THEN [r EXCEPT !.failed = <<"address">>, !.thrown = TRUE, !.ret = ret[1]]
       ELSE [r EXCEPT !.got = <<"address">>,
                      !.hal = <<HalCall(fn, via, Ptr(via), {}, status)>>,
                      !.rel = <<"address">>,
                      !.ret = IF ret[2] THEN BoolRet(status) ELSE ret[1]])

\* the commands of the form: guard, address, one HAL call, release
\* (sendAbsVolRspNative, lines 1078-1095, and the like)
AddrCommand(op, guard, via, fn, ret, addr, status) ==
  LET r == [Rec(op, "cmd") EXCEPT !.via = via]
  IN Command(op,
       IF Ptr(guard) = NULL THEN [r EXCEPT !.ret = ret[1]]
       ELSE IF addr = NULL
         THEN [r EXCEPT !.failed = <<"address">>, !.thrown = TRUE, !.ret = ret[1]]
       ELSE [r EXCEPT !.got = <<"address">>,
                      !.hal = <<HalCall(fn, via, Ptr(via), {}, status)>>,
                      !.rel = <<"address">>,
                      !.ret = IF ret[2] THEN BoolRet(status) ELSE ret[1]])

Void == <<"void", FALSE>>
Bool == <<"JNI_FALSE", TRUE>>

\* lines 978-1001
sendPassThroughCommandNative ==
  /\ last = NoOp
  /\ \E addr \in Buffers, status \in Status :
       AddrCommand("sendPassThroughCommandNative", "rc", "rc", "send_pass_through_cmd", Bool, addr, status)

\* lines 1003-1027
sendGroupNavigationCommandNative ==
  /\ last = NoOp
  /\ \E addr \in Buffers, status \in Status :
       AddrCommand("sendGroupNavigationCommandNative", "rc", "rc", "send_group_navigation_cmd", Bool, addr, status)

\* lines 1029-1076.  new[] does not return null (it throws or aborts), so
\* the branch of line 1045 is not taken.
setPlayerApplicationSettingValuesNative ==
  /\ last = NoOp
  /\ \E addr \in Buffers, attr \in Buffers, attr_val \in Buffers, status \in Status :
       LET op == "setPlayerApplicationSettingValuesNative"
           r == [Rec(op, "cmd") EXCEPT !.via = "rc"]
       IN Command(op,
            IF sBluetoothAvrcpInterface = NULL THEN r
            ELSE IF addr = NULL THEN [r EXCEPT !.failed = <<"address">>, !.thrown = TRUE]
            ELSE IF attr = NULL \/ attr_val = NULL
              THEN [r EXCEPT !.got = <<"address">> \o Got("attrib_ids", attr) \o Got("attrib_val", attr_val),
                             !.failed = Failed("attrib_ids", attr) \o Failed("attrib_val", attr_val),
                             !.newd = <<"pAttrs", "pAttrsVal">>,
                             !.freed = <<"pAttrs", "pAttrsVal">>,
                             !.thrown = TRUE]
            ELSE [r EXCEPT !.got = <<"address", "attrib_ids", "attrib_val">>,
                           !.newd = <<"pAttrs", "pAttrsVal">>,
                           !.hal = <<HalCall("set_player_app_setting_cmd", "rc", sBluetoothAvrcpInterface, {}, status)>>,
                           !.freed = <<"pAttrs", "pAttrsVal">>,
                           !.rel = <<"attrib_ids", "attrib_val", "address">>])

\* lines 1078-1095
sendAbsVolRspNative ==
  /\ last = NoOp
  /\ \E addr \in Buffers, status \in Status :
       AddrCommand("sendAbsVolRspNative", "rc", "rc", "set_volume_rsp", Void, addr, status)

\* lines 1097-1116
sendRegisterAbsVolRspNative ==
  /\ last = NoOp
  /\ \E addr \in Buffers, status \in Status :
       AddrCommand("sendRegisterAbsVolRspNative", "rc", "rc", "register_abs_vol_rsp", Void, addr, status)

\* lines 1118-1134
getPlaybackStateNative ==
  /\ last = NoOp
  /\ \E addr \in Buffers, status \in Status :
       AddrCommand("getPlaybackStateNative", "rc", "rc", "get_playback_state_cmd", Void, addr, status)

\* lines 1136-1151
getNowPlayingListNative ==
  /\ last = NoOp
  /\ \E addr \in Buffers, status \in Status :
       AddrCommand("getNowPlayingListNative", "rc", "rc", "get_now_playing_list_cmd", Void, addr, status)

\* lines 1153-1168
getFolderListNative ==
  /\ last = NoOp
  /\ \E addr \in Buffers, status \in Status :
       AddrCommand("getFolderListNative", "rc", "rc", "get_folder_list_cmd", Void, addr, status)

\* lines 1170-1186
getPlayerListNative ==
  /\ last = NoOp
  /\ \E addr \in Buffers, status \in Status :
       AddrCommand("getPlayerListNative", "rc", "rc", "get_player_list_cmd", Void, addr, status)

\* the commands that take an address and a uid: guard, address, uid, one HAL
\* call, then the releases `rel`
UidCommand(op, via, fn, rel, addr, uid, status) ==
  LET r == [Rec(op, "cmd") EXCEPT !.via = via]
  IN Command(op,
       IF Ptr(via) = NULL THEN r
       ELSE IF addr = NULL THEN [r EXCEPT !.failed = <<"address">>, !.thrown = TRUE]
       ELSE IF uid = NULL
         THEN [r EXCEPT !.got = <<"address">>, !.failed = <<"uid">>, !.thrown = TRUE]
       ELSE [r EXCEPT !.got = <<"address", "uid">>,
                      !.hal = <<HalCall(fn, via, Ptr(via), {}, status)>>,
                      !.rel = rel])

\* lines 1188-1212: only the address is released
changeFolderPathNative ==
  /\ last = NoOp
  /\ \E addr \in Buffers, uid \in Buffers, status \in Status :
       UidCommand("changeFolderPathNative", "rc", "change_folder_path_cmd", <<"address">>, addr, uid, status)

\* lines 1214-1230
setBrowsedPlayerNative ==
  /\ last = NoOp
  /\ \E addr \in Buffers, status \in Status :
       AddrCommand("setBrowsedPlayerNative", "rc", "rc", "set_browsed_player_cmd", Void, addr, status)

\* lines 1232-1249
setAddressedPlayerNative ==
  /\ last = NoOp
  /\ \E addr \in Buffers, status \in Status :
       AddrCommand("setAddressedPlayerNative", "rc", "rc", "set_addressed_player_cmd", Void, addr, status)

\* lines 1251-1274
playItemNative ==
  /\ last = NoOp
  /\ \E addr \in Buffers, uid \in Buffers, status \in Status :
       UidCommand("playItemNative", "rc", "play_item_cmd", <<"address", "uid">>, addr, uid, status)

\* the commands that take an address and an optional attribute id list:
\* guard, address, numAttr check, GetIntArrayElements when numAttr > 0 and
\* attrIds is not null, one HAL call, release
AttrCommand(op, fn, addr, numAttr, attrIds, attr, status) ==
  LET r == [Rec(op, "cmd") EXCEPT !.via = "rcv"]
      wanted == (numAttr > 0) /\ (attrIds # NULL)
  IN Command(op,
       IF sBluetoothAvrcpVendorInterface = NULL THEN r
       ELSE IF addr = NULL THEN [r EXCEPT !.failed = <<"address">>, !.thrown = TRUE]
       ELSE IF numAttr > BTRC_MAX_ELEM_ATTR_SIZE THEN [r EXCEPT !.got = <<"address">>]
       ELSE IF wanted /\ attr = NULL
         THEN [r EXCEPT !.got = <<"address">>, !.failed = <<"attrIds">>, !.thrown = TRUE]
       ELSE [r EXCEPT !.got = <<"address">> \o (IF wanted THEN <<"attrIds">> ELSE <<>>),
                      !.hal = <<HalCall(fn, "rcv", sBluetoothAvrcpVendorInterface,
                                        IF wanted THEN {} ELSE {"attrIds"}, status)>>,
                      !.rel = (IF wanted THEN <<"attrIds">> ELSE <<>>) \o <<"address">>])

\* lines 1282-1315
getItemElementAttributesNative ==
  /\ last = NoOp
  /\ \E addr \in Buffers, numAttr \in NumAttrs, attrIds \in Arrays, attr \in Buffers, status \in Status :
       AttrCommand("getItemElementAttributesNative", "get_media_element_attributes_vendor",
                   addr, numAttr, attrIds, attr, status)

\* lines 1323-1356
getElementAttributesNative ==
  /\ last = NoOp
  /\ \E addr \in Buffers, numAttr \in NumAttrs, attrIds \in Arrays, attr \in Buffers, status \in Status :
       AttrCommand("getElementAttributesNative", "get_element_attributes_cmd",
                   addr, numAttr, attrIds, attr, status)

\* lines 1358-1392
getFolderItemsNative ==
  /\ last = NoOp
  /\ \E addr \in Buffers, numAttr \in NumAttrs, attrIds \in Arrays, attr \in Buffers, status \in Status :
       AttrCommand("getFolderItemsNative", "get_folder_items_vendor_cmd",
                   addr, numAttr, attrIds, attr, status)

\* lines 1394-1421: the result of GetStringUTFChars is not checked
searchNative ==
  /\ last = NoOp
  /\ \E addr \in Buffers, search_pattern \in Buffers, status \in Status :
       LET op == "searchNative"
           r == [Rec(op, "cmd") EXCEPT !.via = "rcv"]
       IN Command(op,
            IF sBluetoothAvrcpVendorInterface = NULL THEN r
            ELSE IF addr = NULL THEN [r EXCEPT !.failed = <<"address">>, !.thrown = TRUE]
            ELSE [r EXCEPT !.got = <<"address">> \o Got("pattern", search_pattern),
                           !.failed = Failed("pattern", search_pattern),
                           !.hal = <<HalCall("search_cmd", "rcv", sBluetoothAvrcpVendorInterface,
                                             NullArg("pattern", search_pattern), status)>>,
                           !.rel = <<"address", "pattern">>])

\* lines 1423-1442
getSearchListNative ==
  /\ last = NoOp
  /\ \E addr \in Buffers, status \in Status :
       AddrCommand("getSearchListNative", "rcv", "rcv", "get_search_list_cmd", Void, addr, status)

\* lines 1444-1469
addToNowPlayingNative ==
  /\ last = NoOp
  /\ \E addr \in Buffers, uid \in Buffers, status \in Status :
       UidCommand("addToNowPlayingNative", "rcv", "add_to_now_playing_cmd", <<"uid", "address">>, addr, uid, status)

\* lines 1471-1513
getItemAttributesNative ==
  /\ last = NoOp
  /\ \E addr \in Buffers, uid \in Buffers, numAttr \in NumAttrs, attrIds \in Arrays,
        attr \in Buffers, status \in Status :
       LET op == "getItemAttributesNative"
           r == [Rec(op, "cmd") EXCEPT !.via = "rcv"]
           wanted == (numAttr > 0) /\ (attrIds # NULL)
       IN Command(op,
            IF sBluetoothAvrcpVendorInterface = NULL THEN r
            ELSE IF addr = NULL THEN [r EXCEPT !.failed = <<"address">>, !.thrown = TRUE]
            ELSE IF uid = NULL
              THEN [r EXCEPT !.got = <<"address">>, !.failed = <<"uid">>, !.thrown = TRUE]
            ELSE IF numAttr > BTRC_MAX_ELEM_ATTR_SIZE THEN [r EXCEPT !.got = <<"address", "uid">>]
            ELSE IF wanted /\ attr = NULL
              THEN [r EXCEPT !.got = <<"address", "uid">>, !.failed = <<"attrIds">>, !.thrown = TRUE]
            ELSE [r EXCEPT !.got = <<"address", "uid">> \o (IF wanted THEN <<"attrIds">> ELSE <<>>),
                           !.hal = <<HalCall("get_item_attr_cmd", "rcv", sBluetoothAvrcpVendorInterface,
                                             IF wanted THEN {} ELSE {"attrIds"}, status)>>,
                           !.rel = (IF wanted THEN <<"attrIds">> ELSE <<>>) \o <<"uid", "address">>])

\* lines 1515-1532
getTotalNumOfItemsNative ==
  /\ last = NoOp
  /\ \E addr \in Buffers, status \in Status :
       AddrCommand("getTotalNumOfItemsNative", "rcv", "rcv", "get_num_of_items_cmd", Void, addr, status)

\* lines 1534-1547: guarded by sBluetoothAvrcpInterface, called through
\* sBluetoothAvrcpVendorInterface
fetchPlayerApplicationSettingNative ==
  /\ last = NoOp
  /\ \E addr \in Buffers, status \in Status :
       AddrCommand("fetchPlayerApplicationSettingNative", "rc", "rcv", "fetch_player_app_setting", Void, addr, status)

\* lines 1549-1566
requestContinuingResponseNative ==
  /\ last = NoOp
  /\ \E addr \in Buffers, status \in Status :
       AddrCommand("requestContinuingResponseNative", "rcv", "rcv", "request_continuing_response_cmd", Void, addr, status)

\* lines 1568-1585
abortContinuingResponseNative ==
  /\ last = NoOp
  /\ \E addr \in Buffers, status \in Status :
       AddrCommand("abortContinuingResponseNative", "rcv", "rcv", "abort_continuing_response_cmd", Void, addr, status)

\* lines 1587-1603
disconnectNative ==
  /\ last = NoOp
  /\ \E addr \in Buffers, status \in Status :
       AddrCommand("disconnectNative", "rcv", "rcv", "disconnect", Void, addr, status)

\* the vendor commands without a buffer: guard, one HAL call
PlainCommand(op, fn, ret) ==
  LET r == [Rec(op, "cmd") EXCEPT !.via = "vnd"]
  IN Command(op,
       IF sBluetoothVendorInterface = NULL THEN [r EXCEPT !.ret = "JNI_FALSE"]
       ELSE [r EXCEPT !.hal = <<HalCall(fn, "vnd", sBluetoothVendorInterface, {}, "void")>>,
                      !.ret = ret])

\* vendor.cpp lines 177-186
bredrcleanupNative ==
  /\ last = NoOp
  /\ PlainCommand("bredrcleanupNative", "bredrcleanup", "JNI_TRUE")

\* vendor.cpp lines 188-197
setWifiStateNative ==
  /\ last = NoOp
  /\ PlainCommand("setWifiStateNative", "set_wifi_state", "JNI_TRUE")

\* vendor.cpp lines 199-210: returns what get_profile_info returns
getProfileInfoNative ==
  /\ last = NoOp
  /\ \E result \in {"JNI_TRUE", "JNI_FALSE"} :
       PlainCommand("getProfileInfoNative", "get_profile_info", result)

\* vendor.cpp lines 212-228
getLinkKeyNative ==
  /\ last = NoOp
  /\ \E addr \in Buffers :
       AddrCommand("getLinkKeyNative", "vnd", "vnd", "get_link_key", Void, addr, "void")

AvrcpCommand ==
  \/ sendPassThroughCommandNative \/ sendGroupNavigationCommandNative
  \/ setPlayerApplicationSettingValuesNative \/ sendAbsVolRspNative
  \/ sendRegisterAbsVolRspNative \/ getPlaybackStateNative
  \/ getNowPlayingListNative \/ getFolderListNative \/ getPlayerListNative
  \/ changeFolderPathNative \/ setBrowsedPlayerNative \/ setAddressedPlayerNative
  \/ playItemNative \/ getItemElementAttributesNative \/ getElementAttributesNative
  \/ getFolderItemsNative \/ searchNative \/ getSearchListNative
  \/ addToNowPlayingNative \/ getItemAttributesNative \/ getTotalNumOfItemsNative
  \/ fetchPlayerApplicationSettingNative \/ requestContinuingResponseNative
  \/ abortContinuingResponseNative \/ disconnectNative

VendorCommand ==
  \/ bredrcleanupNative \/ setWifiStateNative \/ getProfileInfoNative \/ getLinkKeyNative

Commands == AvrcpCommand \/ VendorCommand

\* CallbackDone for a callback that resets the callbacks object
CallbackDone_ResetsObject(rec) ==
  /\ last' = rec
  /\ sCallbacksObj' = NULL
  /\ UNCHANGED <<sBluetoothAvrcpInterface, sBluetoothAvrcpVendorInterface, classGlobals,
                 vendorGlobals, globalRefs, hal, svc>>

\* ------------------------------------------------------ HAL callbacks
\* The HAL invokes the callbacks of an interface, on its callback thread, from
\* a successful init of that interface until its cleanup.
\* A callback runs in one step and writes none of the globals.
CallbackDone(rec) ==
  /\ last' = rec
  /\ UNCHANGED <<avrcpGlobals, classGlobals, vendorGlobals, globalRefs, hal, svc>>

\* Callback with the Java call made twice
Callback_CallsTwice(op, halIf, obj, method, allocs, outcome) ==
  /\ hal[halIf] > 0
  /\ CallbackDone(
       IF outcome = -1 THEN Rec(op, "cb")
       ELSE IF outcome > 0 THEN [Rec(op, "cb") EXCEPT !.failed = <<allocs[outcome]>>]
       ELSE [Rec(op, "cb") EXCEPT !.java = <<JavaCall(method, obj, {}), JavaCall(method, obj, {})>>])

\* The callbacks of the form: CallbackEnv, the allocations `allocs` in order,
\* each checked, one Java call on `obj`.  outcome: -1 when the CallbackEnv is
\* not valid, k > 0 when the k-th allocation returns null, 0 otherwise.
Callback(op, halIf, obj, method, allocs, outcome) ==
  /\ hal[halIf] > 0
  /\ CallbackDone(
       IF outcome = -1 THEN Rec(op, "cb")
       ELSE IF outcome > 0 THEN [Rec(op, "cb") EXCEPT !.failed = <<allocs[outcome]>>]
       ELSE [Rec(op, "cb") EXCEPT !.java = <<JavaCall(method, obj, {})>>])

Strings(n, nullAt) == [j \in 1..n |-> IF j = nullAt THEN "NULL" ELSE "obj"]

\* lines 278-331: addr, attribIds, stringArray, then one string per attribute,
\* each checked
btavrcp_attr_rsp_callback(op, halIf, method) ==
  /\ last = NoOp
  /\ hal[halIf] > 0
  /\ \E num_attr \in 0..MaxAttrs : \E outcome \in -1..(3 + num_attr) :
       CallbackDone(
         IF outcome = -1 THEN Rec(op, "cb")
         ELSE IF outcome > 0
           THEN [Rec(op, "cb") EXCEPT
                   !.failed = <<IF outcome > 3 THEN "str"
                                ELSE <<"addr", "attribIds", "stringArray">>[outcome]>>]
         ELSE [Rec(op, "cb") EXCEPT
                 !.java = <<JavaCall(method, sCallbacksObj, {})>>,
                 !.arr = <<[name |-> "stringArray", cls |-> "String", elems |-> Strings(num_attr, 0)]>>])

\* lines 67-84
btavrcp_passthrough_response_callback ==
  /\ last = NoOp
  /\ \E outcome \in -1..Len(<<"addr">>) :
       Callback("btavrcp_passthrough_response_callback", "rc", sCallbacksObj, "handlePassthroughRsp", <<"addr">>, outcome)

\* lines 86-93
btavrcp_groupnavigation_response_callback ==
  /\ last = NoOp
  /\ \E outcome \in -1..Len(<<>>) :
       Callback("btavrcp_groupnavigation_response_callback", "rc", sCallbacksObj, "handleGroupNavigationRsp", <<>>, outcome)

\* lines 95-113
btavrcp_connection_state_callback ==
  /\ last = NoOp
  /\ \E outcome \in -1..Len(<<"addr">>) :
       Callback("btavrcp_connection_state_callback", "rc", sCallbacksObj, "onConnectionStateChanged", <<"addr">>, outcome)

\* lines 115-131
btavrcp_get_rcfeatures_callback ==
  /\ last = NoOp
  /\ \E outcome \in -1..Len(<<"addr">>) :
       Callback("btavrcp_get_rcfeatures_callback", "rc", sCallbacksObj, "getRcFeatures", <<"addr">>, outcome)

\* lines 133-150
btavrcp_setplayerapplicationsetting_rsp_callback ==
  /\ last = NoOp
  /\ \E outcome \in -1..Len(<<"addr">>) :
       Callback("btavrcp_setplayerapplicationsetting_rsp_callback", "rc", sCallbacksObj, "setPlayerAppSettingRsp", <<"addr">>, outcome)

\* lines 152-199
btavrcp_playerapplicationsetting_callback ==
  /\ last = NoOp
  /\ \E outcome \in -1..Len(<<"addr", "playerattribs">>) :
       Callback("btavrcp_playerapplicationsetting_callback", "rc", sCallbacksObj, "handlePlayerAppSetting", <<"addr", "playerattribs">>, outcome)

\* lines 201-237
btavrcp_playerapplicationsetting_changed_callback ==
  /\ last = NoOp
  /\ \E outcome \in -1..Len(<<"addr", "playerattribs">>) :
       Callback("btavrcp_playerapplicationsetting_changed_callback", "rc", sCallbacksObj, "onPlayerAppSettingChanged", <<"addr", "playerattribs">>, outcome)

\* lines 239-256
btavrcp_set_abs_vol_cmd_callback ==
  /\ last = NoOp
  /\ \E outcome \in -1..Len(<<"addr">>) :
       Callback("btavrcp_set_abs_vol_cmd_callback", "rc", sCallbacksObj, "handleSetAbsVolume", <<"addr">>, outcome)

\* lines 258-276
btavrcp_register_notification_absvol_callback ==
  /\ last = NoOp
  /\ \E outcome \in -1..Len(<<"addr">>) :
       Callback("btavrcp_register_notification_absvol_callback", "rc", sCallbacksObj, "handleRegisterNotificationAbsVol", <<"addr">>, outcome)

\* lines 333-338
btavrcp_track_changed_callback ==
  btavrcp_attr_rsp_callback("btavrcp_track_changed_callback", "rc", "onTrackChanged")

\* lines 340-357
btavrcp_play_position_changed_callback ==
  /\ last = NoOp
  /\ \E outcome \in -1..Len(<<"addr">>) :
       Callback("btavrcp_play_position_changed_callback", "rc", sCallbacksObj, "onPlayPositionChanged", <<"addr">>, outcome)

\* lines 359-375
btavrcp_play_status_changed_callback ==
  /\ last = NoOp
  /\ \E outcome \in -1..Len(<<"addr">>) :
       Callback("btavrcp_play_status_changed_callback", "rc", sCallbacksObj, "onPlayStatusChanged", <<"addr">>, outcome)

\* lines 568-575
btavrcp_change_path_callback ==
  /\ last = NoOp
  /\ \E outcome \in -1..Len(<<>>) :
       Callback("btavrcp_change_path_callback", "rc", sCallbacksObj, "handleChangeFolderRsp", <<>>, outcome)

\* lines 577-586
btavrcp_set_browsed_player_callback ==
  /\ last = NoOp
  /\ \E outcome \in -1..Len(<<>>) :
       Callback("btavrcp_set_browsed_player_callback", "rc", sCallbacksObj, "handleSetBrowsedPlayerRsp", <<>>, outcome)

\* lines 588-597
btavrcp_set_addressed_player_callback ==
  /\ last = NoOp
  /\ \E outcome \in -1..Len(<<>>) :
       Callback("btavrcp_set_addressed_player_callback", "rc", sCallbacksObj, "handleSetAddressedPlayerRsp", <<>>, outcome)

\* lines 599-616
btavrcp_get_vendor_rcfeatures_callback ==
  /\ last = NoOp
  /\ \E outcome \in -1..Len(<<"addr">>) :
       Callback("btavrcp_get_vendor_rcfeatures_callback", "rcv", sCallbacksObj, "getRcFeatures", <<"addr">>, outcome)

\* lines 618-622
btavrcp_get_elem_attr_rsp_callback ==
  btavrcp_attr_rsp_callback("btavrcp_get_elem_attr_rsp_callback", "rcv", "onElementAttributeUpdate")

\* lines 624-640
btavrcp_uids_changed_callback ==
  /\ last = NoOp
  /\ \E outcome \in -1..Len(<<"addr">>) :
       Callback("btavrcp_uids_changed_callback", "rcv", sCallbacksObj, "onUidsChanged", <<"addr">>, outcome)

\* lines 642-651
btavrcp_search_response_callback ==
  /\ last = NoOp
  /\ \E outcome \in -1..Len(<<>>) :
       Callback("btavrcp_search_response_callback", "rcv", sCallbacksObj, "handleSearchRsp", <<>>, outcome)

\* lines 653-657
btavrcp_get_item_attr_rsp_callback ==
  btavrcp_attr_rsp_callback("btavrcp_get_item_attr_rsp_callback", "rcv", "onItemAttributeUpdate")

\* lines 660-669
btavrcp_num_of_items_rsp_callback ==
  /\ last = NoOp
  /\ \E outcome \in -1..Len(<<>>) :
       Callback("btavrcp_num_of_items_rsp_callback", "rcv", sCallbacksObj, "handleNumOfItemsRsp", <<>>, outcome)

\* lines 671-690
btavrcp_addressed_player_update_callback ==
  /\ last = NoOp
  /\ \E outcome \in -1..Len(<<"addr">>) :
       Callback("btavrcp_addressed_player_update_callback", "rcv", sCallbacksObj, "onAddressedPlayerChanged", <<"addr">>, outcome)

\* lines 692-709
btavrcp_available_player_changed_callback ==
  /\ last = NoOp
  /\ \E outcome \in -1..Len(<<"addr">>) :
       Callback("btavrcp_available_player_changed_callback", "rcv", sCallbacksObj, "onAvailablePlayerChanged", <<"addr">>, outcome)

\* lines 711-728
btavrcp_now_playing_changed_callback ==
  /\ last = NoOp
  /\ \E outcome \in -1..Len(<<"addr">>) :
       Callback("btavrcp_now_playing_changed_callback", "rcv", sCallbacksObj, "onNowPlayingChanged", <<"addr">>, outcome)

\* lines 730-739
btavrcp_add_to_now_playing_callback ==
  /\ last = NoOp
  /\ \E outcome \in -1..Len(<<>>) :
       Callback("btavrcp_add_to_now_playing_callback", "rcv", sCallbacksObj, "handleAddToNowPlayingRsp", <<>>, outcome)

\* lines 741-750
btavrcp_error_status_code_callback ==
  /\ last = NoOp
  /\ \E outcome \in -1..Len(<<>>) :
       Callback("btavrcp_error_status_code_callback", "rcv", sCallbacksObj, "handleErrorStatusCode", <<>>, outcome)

\* vendor.cpp lines 47-55
bredr_cleanup_callback ==
  /\ last = NoOp
  /\ \E outcome \in -1..0 :
       Callback("bredr_cleanup_callback", "vnd", mCallbacksObj, "onBredrCleanup", <<>>, outcome)

\* vendor.cpp lines 57-79
iot_device_broadcast_callback ==
  /\ last = NoOp
  /\ \E outcome \in -1..1 :
       Callback("iot_device_broadcast_callback", "vnd", mCallbacksObj, "iotDeviceBroadcast", <<"addr">>, outcome)

\* vendor.cpp lines 81-106 with create_link_key_string, lines 36-45: the
\* string NewStringUTF returns is not checked
get_link_key_callback ==
  /\ last = NoOp
  /\ hal.vnd > 0
  /\ \E valid \in BOOLEAN, bd_addr \in Buffers, addr \in Buffers, linkkey \in Buffers :
       LET r == Rec("get_link_key_callback", "cb")
       IN CallbackDone(
            IF ~valid THEN r
            ELSE IF bd_addr = NULL THEN r
            ELSE IF addr = NULL THEN [r EXCEPT !.failed = <<"addr">>]
            ELSE [r EXCEPT !.failed = Failed("linkkey", linkkey),
                           !.java = <<JavaCall("onGetLinkKey", mCallbacksObj, NullArg("linkkey", linkkey))>>])

SimpleCallbacks ==
  \/ btavrcp_passthrough_response_callback \/ btavrcp_groupnavigation_response_callback
  \/ btavrcp_connection_state_callback \/ btavrcp_get_rcfeatures_callback
  \/ btavrcp_setplayerapplicationsetting_rsp_callback \/ btavrcp_playerapplicationsetting_callback
  \/ btavrcp_playerapplicationsetting_changed_callback \/ btavrcp_set_abs_vol_cmd_callback
  \/ btavrcp_register_notification_absvol_callback \/ btavrcp_track_changed_callback
  \/ btavrcp_play_position_changed_callback \/ btavrcp_play_status_changed_callback
  \/ btavrcp_change_path_callback \/ btavrcp_set_browsed_player_callback
  \/ btavrcp_set_addressed_player_callback \/ btavrcp_get_vendor_rcfeatures_callback
  \/ btavrcp_get_elem_attr_rsp_callback \/ btavrcp_uids_changed_callback
  \/ btavrcp_search_response_callback \/ btavrcp_get_item_attr_rsp_callback
  \/ btavrcp_num_of_items_rsp_callback \/ btavrcp_addressed_player_update_callback
  \/ btavrcp_available_player_changed_callback \/ btavrcp_now_playing_changed_callback
  \/ btavrcp_add_to_now_playing_callback \/ btavrcp_error_status_code_callback
  \/ bredr_cleanup_callback \/ iot_device_broadcast_callback
  \/ get_link_key_callback

\* ---------------------------- btavrcp_get_folder_items_callback, 377-566
\* item_type of a btrc_folder_items_t; "other" is any value the switch of
\* line 409 has no case for
ItemTypes == {"BTRC_ITEM_MEDIA", "BTRC_ITEM_FOLDER", "BTRC_ITEM_PLAYER", "other"}

\* the Java objects and arrays the callback allocates for one item, in order
ItemAllocs(item_type, num_attrs) ==
  CASE item_type = "BTRC_ITEM_MEDIA" ->
         <<"mediaName", "uidByteArray", "attrIdArray", "attrValArray">>
           \o [j \in 1..num_attrs |-> "attrValStr"]
    [] item_type = "BTRC_ITEM_FOLDER" -> <<"folderName", "uidByteArray">>
    [] item_type = "BTRC_ITEM_PLAYER" -> <<"featureBitArray", "playerName">>
    [] OTHER -> <<>>

\* the factory method called for an item
Factory(item_type) ==
  CASE item_type = "BTRC_ITEM_MEDIA" -> "createFromNativeMediaItem"
    [] item_type = "BTRC_ITEM_FOLDER" -> "createFromNativeFolderItem"
    [] item_type = "BTRC_ITEM_PLAYER" -> "createFromNativePlayerItem"

\* An allocation of the item returned null and the callback returns: every
\* allocation is followed by a test of its result but attrValStr, where the
\* test of line 456 is on uidByteArray and always passes.
NullReturns(it) ==
  /\ it.null > 0
  /\ ItemAllocs(it.item_type, it.num_attrs)[it.null] # "attrValStr"

\* the factory method is called for the item
Created(it) == it.item_type # "other" /\ ~NullReturns(it)

\* the callback returns inside the iteration of this item
ItemReturns(it) == NullReturns(it) \/ (Created(it) /\ ~it.obj)

\* One item as the loop meets it: its type, its attributes, the allocation that
\* returns null (0: none) and whether the factory method returns an object.
FolderItems ==
  UNION {
    UNION {
      { it \in [item_type : {t}, num_attrs : {n},
                null : 0..Len(ItemAllocs(t, n)), obj : BOOLEAN] :
          /\ NullReturns(it) => ~it.obj
          /\ t = "other" => it.obj }
      : n \in IF t = "BTRC_ITEM_MEDIA" THEN 0..MaxAttrs ELSE {0} }
    : t \in ItemTypes }

\* the items the loop of line 406 goes through when handed `count` items: all
\* of them, or those up to the one it returns in
RECURSIVE FolderItemRuns(_)
FolderItemRuns(count) ==
  IF count = 0 THEN {<<>>}
  ELSE { <<it>> : it \in {x \in FolderItems : ItemReturns(x)} }
       \cup { <<it>> \o run : it \in {x \in FolderItems : ~ItemReturns(x)},
                              run \in FolderItemRuns(count - 1) }

\* what the callback does on the items `run` of a list of `count`, with
\* sCallbacksObj = obj
FolderItemsRec(count, run, obj) ==
  LET IsNull(it) == it.null > 0
      IsMedia(it) == it.item_type = "BTRC_ITEM_MEDIA" /\ Created(it)
      created == SelectSeq(run, Created)
      media == SelectSeq(run, IsMedia)
      nulls == SelectSeq(run, IsNull)
      returned == \E i \in 1..Len(run) : ItemReturns(run[i])
      \* lines 390-391, 515
      isPlayerListing == \E i \in 1..Len(run) : run[i].item_type = "BTRC_ITEM_PLAYER"
      \* lines 394-401
      cls == IF count > 0 /\ run[1].item_type = "BTRC_ITEM_PLAYER"
             THEN "AvrcpPlayer" ELSE "MediaBrowser.MediaItem"
      factories == [i \in 1..Len(created) |->
                      JavaCall(Factory(created[i].item_type), obj, {})]
      attrValArrays == [i \in 1..Len(media) |->
                          [name |-> "attrValArray", cls |-> "String",
                           elems |-> Strings(media[i].num_attrs,
                                             IF media[i].null > 4 THEN media[i].null - 4 ELSE 0)]]
      \* elems: what SetObjectArrayElement is handed for each slot (lines 474,
      \* 509, 549), "NULL" for a slot the loop does not set (line 554)
      itemArray == [name |-> "itemArray", cls |-> cls,
                    elems |-> [i \in 1..count |->
                                 IF run[i].item_type = "other" THEN "NULL" ELSE run[i].item_type]]
      failed == [i \in 1..Len(nulls) |->
                   ItemAllocs(nulls[i].item_type, nulls[i].num_attrs)[nulls[i].null]]
      r == [Rec("btavrcp_get_folder_items_callback", "cb") EXCEPT !.failed = failed]
  IN IF returned
     THEN [r EXCEPT !.java = factories, !.arr = attrValArrays]
     ELSE [r EXCEPT
             !.java = factories \o
                      <<JavaCall(IF isPlayerListing THEN "handleGetPlayerItemsRsp"
                                 ELSE "handleGetFolderItemsRsp", obj, {})>>,
             !.arr = attrValArrays \o <<itemArray>>]

\* what the callback can do, by the value of sCallbacksObj: lines 385-386 (the
\* CallbackEnv is not valid), 402-405 (itemArray is null), 406-565
FolderItemsRecs ==
  [obj \in {NULL, LiveRef, StaleRef} |->
     {Rec("btavrcp_get_folder_items_callback", "cb"),
      [Rec("btavrcp_get_folder_items_callback", "cb") EXCEPT !.failed = <<"itemArray">>]}
     \cup UNION { {FolderItemsRec(count, run, obj) : run \in FolderItemRuns(count)}
                  : count \in 0..MaxItems }]

btavrcp_get_folder_items_callback ==
  /\ last = NoOp
  /\ hal.rc > 0
  /\ \E rec \in FolderItemsRecs[sCallbacksObj] : CallbackDone(rec)

Callbacks == SimpleCallbacks \/ btavrcp_get_folder_items_callback

\* the service thread alone
Next == Lifecycle \/ Commands \/ Return
Spec == Init /\ [][Next]_vars

\* initNative / cleanupNative and the callback thread
NextCb == Lifecycle \/ Callbacks \/ Return
SpecCb == Init /\ [][NextCb]_vars

\* both threads
NextAll == Lifecycle \/ Commands \/ Callbacks \/ Return
SpecAll == Init /\ [][NextAll]_vars

\* ============================================================== claims
\* the commands that return a boolean
BoolCommands ==
  {"sendPassThroughCommandNative", "sendGroupNavigationCommandNative",
   "bredrcleanupNative", "setWifiStateNative", "getProfileInfoNative"}

\* the Java calls of a record that are not createFromNative* factory calls
IsHandlerCall(c) ==
  c.method \notin {"createFromNativeMediaItem", "createFromNativeFolderItem",
                   "createFromNativePlayerItem"}
HandlerCalls(rec) == SelectSeq(rec.java, IsHandlerCall)

\* how often x occurs in the sequence s
Count(s, x) == Cardinality({i \in 1..Len(s) : s[i] = x})

\* neither AVRCP initNative nor AVRCP cleanupNative is executing
AvrcpQuiescent ==
  svc.pc = "idle" \/ svc.op \in {"vendor_initNative", "vendor_cleanupNative"}

\* C1: a command (other than initNative / cleanupNative) entered while the
\* interface pointer it calls through is NULL makes no HAL call and returns,
\* JNI_FALSE where it returns a boolean.
C1_NullPointerNoHalCall ==
  (last.kind = "cmd" /\ Ptr(last.via) = NULL) =>
    /\ last.hal = <<>>
    /\ last.ret = IF last.op \in BoolCommands THEN "JNI_FALSE" ELSE "void"

\* fetchPlayerApplicationSettingNative, which tests the other pointer, entered
\* after a cleanupNative that cleaned up both interfaces
C1_Witness ==
  /\ last.op = "fetchPlayerApplicationSettingNative"
  /\ sBluetoothAvrcpVendorInterface = NULL
  /\ svc.op = "avrcp_cleanupNative"
  /\ Len(svc.hal) = 2
  /\ last.hal = <<>>

\* C2: in a callback, when an array or string the callback allocates is null,
\* the callback returns without calling the Java response handler and without
\* storing a null element in an array it hands to Java.
C2_AllocationFailureReturns ==
  (last.kind = "cb" /\ last.failed # <<>>) =>
    /\ HandlerCalls(last) = <<>>
    /\ \A i \in 1..Len(last.java) : last.java[i].nullArgs = {}
    /\ \A i \in 1..Len(last.arr) :
         \A j \in 1..Len(last.arr[i].elems) :
           last.arr[i].name = "attrValArray" => last.arr[i].elems[j] # "NULL"

\* get_link_key_callback hands a null link key string to onGetLinkKey
C2_NullLinkKeyDelivered ==
  /\ last.op = "get_link_key_callback"
  /\ last.failed = <<"linkkey">>
  /\ Len(last.java) = 1
  /\ last.java[1].nullArgs = {"linkkey"}

\* C3: in a command, when GetByteArrayElements, GetIntArrayElements or
\* GetStringUTFChars returns null, no HAL function is called, and the
\* interface pointers and the callbacks objects stay as they are.
C3_NullBufferNoHalCall ==
  [][(last'.kind = "cmd" /\ last'.failed # <<>>) =>
       /\ last'.hal = <<>>
       /\ UNCHANGED <<avrcpGlobals, vendorGlobals>>]_vars

\* searchNative calls search_cmd with the null pattern
C3_NullPatternSearched ==
  /\ last.op = "searchNative"
  /\ last.failed = <<"pattern">>
  /\ Len(last.hal) = 1
  /\ last.hal[1].nullArgs = {"pattern"}

\* C4: a command that reaches its HAL call releases every buffer it obtained
\* exactly once before it returns.
C4_BuffersReleasedOnce ==
  (last.kind = "cmd" /\ last.hal # <<>>) =>
    \A i \in 1..Len(last.got) : Count(last.rel, last.got[i]) = 1

\* changeFolderPathNative returns after its HAL call with the uid buffer held
C4_UidNotReleased ==
  /\ last.op = "changeFolderPathNative"
  /\ Len(last.hal) = 1
  /\ Count(last.got, "uid") = 1
  /\ Count(last.rel, "uid") = 0

\* C5 as stated: no operation leaves state behind that a later one reads, so
\* what an operation calls does not depend on what ran before it.  In the
\* initial state every command returns without a HAL call; so it would in
\* every state.
C5_CallsIndependentOfHistory ==
  last.kind = "cmd" => last.hal = <<>>

\* C5, amended: the globals written by initNative and cleanupNative outlive
\* the call; a command or a callback leaves every global, the global
\* references and the state of the HAL as it found them.
C5_OnlyLifecycleStatePersists ==
  [][last' # NoOp =>
       UNCHANGED <<avrcpGlobals, classGlobals, vendorGlobals, globalRefs, hal>>]_vars

\* a command makes a HAL call through the pointer an earlier initNative stored
C5_Witness ==
  /\ last.kind = "cmd"
  /\ Len(last.hal) = 1
  /\ ~last.hal[1].ptrNull
  /\ svc.op = "avrcp_initNative"

\* C6: a callback that runs while initNative or cleanupNative is executing
\* calls Java only on a callbacks object that is neither NULL nor a deleted
\* global reference.
C6_CallbackObjectValid ==
  (last.kind = "cb" /\ svc.pc # "idle") =>
    \A i \in 1..Len(last.java) : last.java[i].obj = "live"

\* a callback of the base interface between init() (line 922) and the
\* assignment of sCallbacksObj (line 952)
C6_CallOnNullObject ==
  /\ last.kind = "cb"
  /\ svc.pc \in {"rc_init_get_vendor", "rc_init_init_vendor", "rc_init_new_ref"}
  /\ Len(last.java) = 1
  /\ last.java[1].obj = "NULL"

\* C7: a command makes at most one HAL call and a callback at most one call
\* of a Java handler (the createFromNative* factory calls apart); the record
\* of the operation is complete when it returns.
C7_AtMostOneForwardedCall ==
  /\ last.kind = "cmd" => Len(last.hal) <= 1
  /\ last.kind = "cb" => Len(HandlerCalls(last)) <= 1

\* btavrcp_get_folder_items_callback delivers a list of MaxItems items
C7_Witness ==
  /\ last.op = "btavrcp_get_folder_items_callback"
  /\ Len(last.java) = MaxItems + 1
  /\ Len(HandlerCalls(last)) = 1

\* C8: while neither AVRCP initNative nor cleanupNative is executing, the
\* vendor interface pointer is non-NULL exactly when the base one is, and the
\* callbacks object is non-NULL only when both are.
C8_PointersAgree ==
  AvrcpQuiescent =>
    /\ (sBluetoothAvrcpVendorInterface # NULL) <=> (sBluetoothAvrcpInterface # NULL)
    /\ sCallbacksObj # NULL =>
         (sBluetoothAvrcpInterface # NULL /\ sBluetoothAvrcpVendorInterface # NULL)

\* initNative has returned after init_vendor() failed and the base interface
\* was rolled back
C8_Witness ==
  /\ svc.pc = "idle"
  /\ svc.op = "avrcp_initNative"
  /\ Len(svc.hal) >= 5
  /\ svc.hal[Len(svc.hal) - 1].fn = "init_vendor"
  /\ svc.hal[Len(svc.hal)].fn = "cleanup"
  /\ sBluetoothAvrcpInterface = NULL

\* C9: fetchPlayerApplicationSettingNative calls fetch_player_app_setting only
\* through a non-NULL sBluetoothAvrcpVendorInterface.
C9_FetchThroughVendorPointer ==
  last.op = "fetchPlayerApplicationSettingNative" =>
    \A i \in 1..Len(last.hal) :
      /\ last.hal[i].fn = "fetch_player_app_setting"
      /\ ~last.hal[i].ptrNull
      /\ sBluetoothAvrcpVendorInterface # NULL

\* the command makes its call after an initNative that succeeded
C9_Witness ==
  /\ last.op = "fetchPlayerApplicationSettingNative"
  /\ Len(last.hal) = 1
  /\ sCallbacksObj # NULL

\* C10: in the AVRCP module neither init() nor init_vendor() succeeds twice
\* without a cleanup() / cleanup_vendor() in between.
C10_CleanupBetweenInits ==
  hal.rc <= 1 /\ hal.rcv <= 1

\* an initNative that found both interfaces initialised, cleaned them up and
\* initialised them again
C10_Witness ==
  /\ svc.op = "avrcp_initNative"
  /\ Len(svc.hal) >= 6
  /\ svc.hal[1].fn = "cleanup_vendor"
  /\ svc.hal[2].fn = "cleanup"
  /\ hal.rc = 1
  /\ hal.rcv = 1

\* C11 as stated: in the vendor module init() does not succeed twice without
\* a cleanup() in between.
C11_VendorCleanupBetweenInits ==
  hal.vnd <= 1

\* a second vendor initNative has initialised the interface the first one
\* left initialised
C11_VendorInitialisedTwice ==
  /\ svc.op = "vendor_initNative"
  /\ hal.vnd = 2
  /\ \A i \in 1..Len(svc.hal) : svc.hal[i].fn # "cleanup"

\* the HAL calls of the current (or last) initNative / cleanupNative call
\* named fn
CallsOf(fn) == {i \in 1..Len(svc.hal) : svc.hal[i].fn = fn}

\* AVRCP initNative has returned, past the test of getBluetoothInterface()
AvrcpInitReturned ==
  svc.pc = "idle" /\ svc.op = "avrcp_initNative" /\ svc.hal # <<>>

\* that initNative call did not get the vendor interface, or its
\* init_vendor() failed
VendorSetupFailed ==
  \/ \E i \in CallsOf("init_vendor") : svc.hal[i].st # "BT_STATUS_SUCCESS"
  \/ \E i \in CallsOf("get_profile_interface") :
       i > 1 /\ svc.hal[i - 1].fn = "init" /\ svc.hal[i].st = "NULL"

\* init_vendor() is called only after an init() that succeeded
InitVendorAfterInit ==
  \A i \in CallsOf("init_vendor") :
    \E j \in CallsOf("init") : j < i /\ svc.hal[j].st = "BT_STATUS_SUCCESS"

\* sCallbacksObj goes from NULL to a reference only when both inits succeeded
CallbacksObjAfterBothInits ==
  (sCallbacksObj = NULL /\ sCallbacksObj' # NULL) =>
    /\ \E j \in CallsOf("init") : svc.hal[j].st = "BT_STATUS_SUCCESS"
    /\ \E i \in CallsOf("init_vendor") : svc.hal[i].st = "BT_STATUS_SUCCESS"

\* C12 as stated: init_vendor() only after a successful init(); when the
\* vendor interface is not obtained or init_vendor() fails, cleanup() is
\* called exactly once in that initNative call, which returns with the three
\* globals NULL; sCallbacksObj becomes non-NULL only after both inits.
C12_SetupAndRollback ==
  /\ [](InitVendorAfterInit
        /\ ((AvrcpInitReturned /\ VendorSetupFailed) =>
              /\ Cardinality(CallsOf("cleanup")) = 1
              /\ avrcpGlobals = <<NULL, NULL, NULL>>))
  /\ [][CallbacksObjAfterBothInits]_vars

\* C12, amended: as C12, but the one cleanup() is the rollback, the last HAL
\* call of that initNative call and the only one after its init(); an
\* interface found initialised on entry is cleaned up before, by another
\* cleanup().
C12_SetupAndRollbackAfterInit ==
  /\ [](InitVendorAfterInit
        /\ ((AvrcpInitReturned /\ VendorSetupFailed) =>
              /\ svc.hal[Len(svc.hal)].fn = "cleanup"
              /\ \A j \in CallsOf("init") :
                   Cardinality({i \in CallsOf("cleanup") : i > j}) = 1
              /\ avrcpGlobals = <<NULL, NULL, NULL>>))
  /\ [][CallbacksObjAfterBothInits]_vars

\* initNative found the interfaces initialised, cleaned them up, and rolled
\* the base interface back after init_vendor() failed
C12_Witness ==
  /\ AvrcpInitReturned
  /\ VendorSetupFailed
  /\ svc.hal[2].fn = "cleanup"
  /\ Cardinality(CallsOf("cleanup")) = 2
  /\ Cardinality(CallsOf("init_vendor")) = 1

\* C13: when getBluetoothInterface() returns NULL, initNative and
\* cleanupNative of both modules make no HAL call and leave the interface
\* pointers and the callbacks objects as they are.
C13_ModuleNotLoadedNoOp ==
  /\ [](svc.btInf = "NULL" => (svc.pc = "idle" /\ svc.hal = <<>> /\ svc.del = 0))
  /\ [][svc'.btInf = "NULL" => UNCHANGED <<avrcpGlobals, vendorGlobals>>]_vars

\* AVRCP initNative returns with the module not loaded, over the interfaces
\* and the callbacks object an earlier initNative set up
C13_Witness ==
  /\ svc.op = "avrcp_initNative"
  /\ svc.btInf = "NULL"
  /\ sBluetoothAvrcpInterface # NULL
  /\ sCallbacksObj # NULL

\* cleanupNative of the module has returned, with the module loaded
AvrcpCleanedUp == svc.pc = "idle" /\ svc.op = "avrcp_cleanupNative" /\ svc.btInf = "found"
VendorCleanedUp == svc.pc = "idle" /\ svc.op = "vendor_cleanupNative" /\ svc.btInf = "found"

\* the step is one of initNative `op`, and it assigns the result of
\* get_profile_interface
ObtainsInterface(op) ==
  /\ svc'.op = op
  /\ Len(svc'.hal) = Len(svc.hal) + 1
  /\ svc'.hal[Len(svc'.hal)].fn = "get_profile_interface"
  /\ svc'.hal[Len(svc'.hal)].st = "found"

\* C14: after cleanupNative has returned with the module loaded, no command
\* of that module makes a HAL call until a later initNative of that module
\* has obtained an interface: cleanupNative leaves the module's pointers NULL,
\* a pointer leaves NULL only where initNative obtains an interface, and a
\* command that made a HAL call found a pointer of its module set.
C14_NoHalCallAfterCleanup ==
  /\ [](AvrcpCleanedUp => (sBluetoothAvrcpInterface = NULL /\ sBluetoothAvrcpVendorInterface = NULL))
  /\ [](VendorCleanedUp => sBluetoothVendorInterface = NULL)
  /\ [][((sBluetoothAvrcpInterface = NULL /\ sBluetoothAvrcpInterface' # NULL)
           \/ (sBluetoothAvrcpVendorInterface = NULL /\ sBluetoothAvrcpVendorInterface' # NULL))
          => ObtainsInterface("avrcp_initNative")]_vars
  /\ [][(sBluetoothVendorInterface = NULL /\ sBluetoothVendorInterface' # NULL)
          => ObtainsInterface("vendor_initNative")]_vars
  /\ []((last.kind = "cmd" /\ last.hal # <<>>) =>
          IF last.via = "vnd" THEN sBluetoothVendorInterface # NULL
          ELSE sBluetoothAvrcpInterface # NULL /\ Ptr(last.via) # NULL)

\* fetchPlayerApplicationSettingNative runs after a cleanupNative that
\* cleaned up both AVRCP interfaces
C14_Witness ==
  /\ AvrcpCleanedUp
  /\ Cardinality(CallsOf("cleanup_vendor")) = 1
  /\ Cardinality(CallsOf("cleanup")) = 1
  /\ last.op = "fetchPlayerApplicationSettingNative"
  /\ last.hal = <<>>

\* the live global references this module created: all of them but the one
\* the vendor module holds in mCallbacksObj
AvrcpGlobalRefs == globalRefs - (IF mCallbacksObj = LiveRef THEN 1 ELSE 0)

\* C15: every global reference AVRCP initNative creates is deleted before its
\* variable is overwritten or by the next cleanupNative: the live global
\* references of this module never exceed three, and are zero after a
\* cleanupNative that ran with the module loaded.
C15_GlobalRefsReleased ==
  /\ AvrcpGlobalRefs <= 3
  /\ AvrcpCleanedUp => AvrcpGlobalRefs = 0

\* a second initNative has overwritten the two class references of the first,
\* which are still live
C15_ClassRefsLeaked ==
  /\ svc.op = "avrcp_initNative"
  /\ svc.pc = "idle"
  /\ sCallbacksObj = LiveRef
  /\ AvrcpGlobalRefs = 5

\* a cleanupNative call that directly follows a cleanupNative call of the
\* same module, both with the module loaded
SecondCleanup(s) ==
  /\ s.op \in {"avrcp_cleanupNative", "vendor_cleanupNative"}
  /\ s.rep
  /\ s.btInf = "found"

\* C16: cleanupNative is idempotent in both modules: a second cleanupNative
\* directly after a first, with the module loaded, makes no HAL cleanup or
\* cleanup_vendor call, deletes no global reference and leaves every global
\* as the first call left it.
C16_CleanupIdempotent ==
  /\ [](SecondCleanup(svc) =>
          (svc.del = 0 /\ CallsOf("cleanup") = {} /\ CallsOf("cleanup_vendor") = {}))
  /\ [][SecondCleanup(svc') =>
          UNCHANGED <<avrcpGlobals, classGlobals, vendorGlobals, globalRefs, hal>>]_vars

\* the second AVRCP cleanupNative has returned; an AVRCP initNative ran before
\* the first, and the vendor interface is initialised
C16_Witness ==
  /\ SecondCleanup(svc)
  /\ svc.op = "avrcp_cleanupNative"
  /\ svc.pc = "idle"
  /\ class_AvrcpPlayer = LiveRef
  /\ hal.vnd = 1

\* the globals initNative and cleanupNative manage
lifecycleGlobals ==
  <<sBluetoothAvrcpInterface, sBluetoothAvrcpVendorInterface, sCallbacksObj,
    sBluetoothVendorInterface, mCallbacksObj>>

\* C17: only initNative and cleanupNative change the lifecycle globals: a
\* step of any other command or of any callback leaves
\* sBluetoothAvrcpInterface, sBluetoothAvrcpVendorInterface, sCallbacksObj,
\* sBluetoothVendorInterface and mCallbacksObj as they are, and a step that
\* changes one of them is a step inside initNative or cleanupNative.
C17_OnlyLifecycleWritesGlobals ==
  /\ [][(last'.kind \in {"cmd", "cb"} /\ last' # last) => UNCHANGED lifecycleGlobals]_vars
  /\ [][lifecycleGlobals' # lifecycleGlobals =>
          (svc # svc' /\ svc.pc # "idle" /\ last' = NoOp)]_vars

\* a callback and a command have run with all five globals set
C17_CallbackWitness ==
  /\ last.kind = "cb"
  /\ \A i \in 1..5 : lifecycleGlobals[i] # NULL

C17_Witness ==
  /\ last.kind = "cmd"
  /\ last.hal # <<>>
  /\ \A i \in 1..5 : lifecycleGlobals[i] # NULL

\* the folder-items callback has handed its item array to Java
ItemsDelivered ==
  /\ last.op = "btavrcp_get_folder_items_callback"
  /\ HandlerCalls(last) # <<>>
\* the array it handed over, and the handler it called
DeliveredArray == last.arr[Len(last.arr)]
DeliveredTo == HandlerCalls(last)[1].method

\* C18: folder and player listings are exclusive: the array passed to
\* handleGetPlayerItemsRsp was created with class AvrcpPlayer, the array
\* passed to handleGetFolderItemsRsp with class MediaBrowser.MediaItem, and
\* no player object is stored into a MediaItem array nor a media or folder
\* object into an AvrcpPlayer array.
C18_ListingsExclusive ==
  ItemsDelivered =>
    /\ DeliveredTo = "handleGetPlayerItemsRsp" => DeliveredArray.cls = "AvrcpPlayer"
    /\ DeliveredTo = "handleGetFolderItemsRsp" => DeliveredArray.cls = "MediaBrowser.MediaItem"
    /\ \A i \in 1..Len(DeliveredArray.elems) :
         /\ DeliveredArray.cls = "MediaBrowser.MediaItem" =>
              DeliveredArray.elems[i] # "BTRC_ITEM_PLAYER"
         /\ DeliveredArray.cls = "AvrcpPlayer" =>
              DeliveredArray.elems[i] \notin {"BTRC_ITEM_MEDIA", "BTRC_ITEM_FOLDER"}

\* a folder item followed by a player item: a MediaItem array, with the
\* player object handed to it, goes to handleGetPlayerItemsRsp
C18_MixedListingDelivered ==
  /\ ItemsDelivered
  /\ DeliveredTo = "handleGetPlayerItemsRsp"
  /\ DeliveredArray.cls = "MediaBrowser.MediaItem"
  /\ DeliveredArray.elems = <<"BTRC_ITEM_FOLDER", "BTRC_ITEM_PLAYER">>

\* C19: on delivery, slot i of the array holds the object the factory method
\* for folder_items[i] returned, in the order of the items, and no slot is
\* left null.
C19_EverySlotTranslated ==
  ItemsDelivered =>
    /\ Len(last.java) = Len(DeliveredArray.elems) + 1
    /\ \A i \in 1..Len(DeliveredArray.elems) :
         /\ DeliveredArray.elems[i] # "NULL"
         /\ last.java[i].method = Factory(DeliveredArray.elems[i])

\* a media item followed by an item of an unknown type: the array is
\* delivered with the second slot left null
C19_NullSlotDelivered ==
  /\ ItemsDelivered
  /\ DeliveredTo = "handleGetFolderItemsRsp"
  /\ DeliveredArray.elems = <<"BTRC_ITEM_MEDIA", "NULL">>
  /\ Len(last.java) = 2

\* a command has returned before its HAL call, holding at least one buffer
EarlyReturn == last.kind = "cmd" /\ last.hal = <<>> /\ last.got # <<>>

\* C20: when a command returns early after it obtained at least one buffer,
\* every buffer it obtained and every native array it allocated so far has
\* been released or freed.
C20_EarlyReturnReleasesAll ==
  EarlyReturn =>
    /\ \A i \in 1..Len(last.got) : Count(last.rel, last.got[i]) = 1
    /\ \A i \in 1..Len(last.newd) : Count(last.freed, last.newd[i]) = 1

\* getItemElementAttributesNative returns on numAttr above the maximum, with
\* the address buffer still held
C20_AddressNotReleased ==
  /\ EarlyReturn
  /\ last.op = "getItemElementAttributesNative"
  /\ last.got = <<"address">>
  /\ last.failed = <<>>
  /\ last.rel = <<>>

====
